---- MODULE Spec2Model ----
(***************************************************************************)
(* The Case process of src/axelrod/case.py (class CaseProcess): a          *)
(* population of named players that is scored round by round, the best     *)
(* scorer being cloned over the worst ones, until fixation, the round cap  *)
(* or a collapse of the score spread.                                      *)
(*                                                                         *)
(* Python lists are functions over 0..n-1 (players, score vectors), so     *)
(* that slot numbers are the code's; the two history logs are sequences.   *)
(* A player is represented by its display name str(player): a clone has    *)
(* the name and the strategy of its source, and Match resets the histories *)
(* of both players before it plays, so nothing else of a player is state.  *)
(*                                                                         *)
(* noise is held in tenths (0.5 is 5); a score is held as the exact value   *)
(* of the float the code computes, and divided, added and compared as      *)
(* floats are.                                                             *)
(***************************************************************************)
EXTENDS FiniteSets, Integers, Sequences, TLC

\* ---------------------------------------------------------------- bounds
MaxN == 3
MaxRound == 2

\* The 1 of "noise <= 1", in tenths.
NoiseOne == 10

None == "None"
Names == {"Cooperator", "Defector", "Detective"}
TurnValues == {1, 5}
NoiseValues == {0 - 1, 0, 5, NoiseOne, NoiseOne + 1}

\* Score History entries a model run may hold: a step is not taken past it.
MaxHistory == MaxRound + 1

\* The largest entry of a score vector written for a direct call of birth/death.
MaxScoreValue == 2

VARIABLES
    players,                \* self.players: slot -> display name
    initial_players,        \* self.initial_players
    turns,                  \* self.turns
    maximum_round,          \* self.maximum_round
    current_round,          \* self.current_round
    current_scores,         \* self.current_scores
    noise,                  \* self.noise, in tenths
    replace_amount,         \* self.replace_amount
    populations,            \* self.populations: the Population Snapshot History
    score_history,          \* self.score_history
    winning_strategy_name,  \* self.winning_strategy_name
    interaction_graph,      \* self.interaction_graph
    reproduction_graph,     \* self.reproduction_graph
    locations,              \* self.locations
    index,                  \* self.index
    graph_args,             \* the interaction_graph / reproduction_graph arguments
    process_class,          \* the class of the process object
    cached_outcomes,        \* self.cached_outcomes (ApproximateCaseProcess)
    play_pc,                \* where a call of play() stands: idle, loop, returned
    ret                     \* how the last call ended: [op, val, line]

vars == <<players, initial_players, turns, maximum_round, current_round,
          current_scores, noise, replace_amount, populations, score_history,
          winning_strategy_name, interaction_graph, reproduction_graph,
          locations, index, graph_args, process_class, cached_outcomes,
          play_pc, ret>>

\* ---------------------------------------------------------------- lists
EmptyList == [i \in {} |-> 0]

ListLen(l) == Cardinality(DOMAIN l)

Lists(S, n) == [0..(n - 1) -> S]

\* The element of a one-element set. The steps of the recursive definitions
\* below are written as one-element sets, {next(v) : v \in {value}}, which
\* computes each intermediate value once.
The(S) == CHOOSE v \in S : TRUE

RECURSIVE SortedSeq(_)
SortedSeq(S) ==
    IF S = {} THEN <<>>
    ELSE The({<<m>> \o SortedSeq(rest) :
                 m \in {x \in S : \A y \in S : x <= y},
                 rest \in {{x \in S : \E y \in S : y < x}}})

SeqRange(s) == {s[k] : k \in DOMAIN s}

\* l without the first occurrence of m.
RemoveFirst(l, m) ==
    The({SubSeq(l, 1, k - 1) \o SubSeq(l, k + 1, Len(l)) :
            k \in {i \in DOMAIN l : l[i] = m /\ \A j \in 1..(i - 1) : l[j] # m}})

\* sorted(l): the entries of l in ascending order, repetitions kept.
RECURSIVE sorted(_)
sorted(l) ==
    IF l = <<>> THEN <<>>
    ELSE The({The({<<m>> \o sorted(rest) : rest \in {RemoveFirst(l, m)}}) :
                 m \in {x \in SeqRange(l) : \A y \in SeqRange(l) : x <= y}})

\* ---------------------------------------------------------------- numbers
\* A score is a Python float (an IEEE 754 double), held as its exact value in
\* units of 2^-60: <<w, a, b, c>> is w + a/2^20 + b/2^40 + c/2^60, with a, b
\* and c below 2^20. Every double from 2^-8 up to 2^11 is such a value, which
\* covers the per-turn scores of matches of up to 256 turns and their sums.
Limb == 1048576

FromInt(k) == <<k, 0, 0, 0>>

\* x <= y.
FloatLeq(x, y) ==
    \/ x[1] < y[1]
    \/ x[1] = y[1] /\ x[2] < y[2]
    \/ x[1] = y[1] /\ x[2] = y[2] /\ x[3] < y[3]
    \/ x[1] = y[1] /\ x[2] = y[2] /\ x[3] = y[3] /\ x[4] <= y[4]

\* The carries of the three fraction limbs.
Normal(v) ==
    The({The({<<v[1] + ka \div Limb, ka % Limb, kb % Limb, v[4] % Limb>> :
                 ka \in {v[2] + kb \div Limb}}) :
            kb \in {v[3] + v[4] \div Limb}})

Log2(x) == CHOOSE e \in 0..20 : 2^e <= x /\ x < 2^(e + 1)

\* The spacing of the doubles around v (one unit in the last of the 53
\* places of v), in units of 2^-60.
Ulp(v) ==
    IF v[1] >= 1 THEN 2^(Log2(v[1]) + 8)
    ELSE IF v[2] >= 4096 THEN 2^(Log2(v[2]) - 12)
    ELSE 1

\* The double nearest to v + (rem/den) * 2^-60, ties to the even one.
FloatRound(v, rem, den) ==
    The({The({Normal(<<v[1], v[2], v[3], last>>) :
                 last \in {v[4] - (v[4] % u)
                             + (IF \/ 2 * ((v[4] % u) * den + rem) > u * den
                                   \/ /\ 2 * ((v[4] % u) * den + rem) = u * den
                                      /\ (v[4] \div u) % 2 = 1
                                THEN u ELSE 0)}}) :
            u \in {Ulp(v)}})

\* x + y of two floats.
FloatAdd(x, y) ==
    The({FloatRound(v, 0, 1) :
            v \in {Normal(<<x[1] + y[1], x[2] + y[2], x[3] + y[3], x[4] + y[4]>>)}})

\* k / T of two ints (true division).
FloatDiv(k, T) ==
    The({The({The({FloatRound(<<k \div T, (r0 * Limb) \div T, (r1 * Limb) \div T,
                                (r2 * Limb) \div T>>,
                              (r2 * Limb) % T, T) :
                      r2 \in {(r1 * Limb) % T}}) :
                 r1 \in {(r0 * Limb) % T}}) :
            r0 \in {k % T}})

\* ---------------------------------------------------------------- graphs
\* A graph: the vertices in the order vertices() lists them, and for each
\* the list out_vertices() gives of its out-neighbours.
\* Graph(edges): a graph holds the vertices its edges leave from, and has
\* no vertex without an edge.
Graph(E) ==
    [vertices |-> SortedSeq({e[1] : e \in E}),
     out      |-> [v \in {e[1] : e \in E} |-> SortedSeq({e[2] : e \in {d \in E : d[1] = v}})]]

\* edges(): the (source, target) pairs of a graph.
edges(g) == UNION {{<<v, g.out[v][k]>> : k \in DOMAIN g.out[v]} : v \in DOMAIN g.out}

\* complete_graph(n, loops=False): an edge each way between any two of the
\* vertices 0..n-1; with one vertex there is no edge, and so no vertex.
complete_graph(n) ==
    Graph({e \in (0..(n - 1)) \X (0..(n - 1)) : e[1] # e[2]})

add_loops(g) ==
    [vertices |-> g.vertices,
     out      |-> [v \in DOMAIN g.out |->
                     IF v \in SeqRange(g.out[v]) THEN g.out[v]
                     ELSE Append(g.out[v], v)]]

out_vertices(g, v) == g.out[v]

\* A directed cycle, one of the graphs a caller can pass.
cycle(n) ==
    [vertices |-> [k \in 1..n |-> k - 1],
     out      |-> [v \in 0..(n - 1) |-> <<(v + 1) % n>>]]

\* No graph: an attribute not set yet, or an argument left at None.
NoGraph == [vertices |-> <<>>, out |-> EmptyList]

\* ---------------------------------------------------------------- strategies
Flip(a) == IF a = "C" THEN "D" ELSE "C"

Defections(h) == Cardinality({k \in DOMAIN h : h[k] = "D"})

\* Detective.strategy: own history and the opponent's history to an action.
Detective(own, opp) ==
    IF Len(own) = 0 THEN "C"
    ELSE IF Len(own) = 1 THEN "D"
    ELSE IF Len(own) = 2 THEN "C"
    ELSE IF Len(own) = 3 THEN "C"
    ELSE IF Defections(opp) # 0
         THEN (IF opp[Len(opp)] = "D" THEN "D" ELSE "C")
         ELSE "D"

TitForTat(own, opp) == IF Len(opp) = 0 THEN "C" ELSE opp[Len(opp)]

Strategy(name, own, opp) ==
    CASE name = "Cooperator"  -> "C"
      [] name = "Defector"    -> "D"
      [] name = "Tit For Tat" -> TitForTat(own, opp)
      [] name = "Detective"   -> Detective(own, opp)

\* The payoffs of the default game: R, P, S, T = 3, 1, 0, 5.
Payoff(a, b) ==
    CASE a = "C" /\ b = "C" -> <<3, 3>>
      [] a = "C" /\ b = "D" -> <<0, 5>>
      [] a = "D" /\ b = "C" -> <<5, 0>>
      [] a = "D" /\ b = "D" -> <<1, 1>>

\* The flips a match of T turns may see: none without noise, every action
\* at noise 1, any at a noise strictly between.
FlipPatterns(p, T) ==
    IF p = 0 THEN {[t \in 1..T |-> <<FALSE, FALSE>>]}
    ELSE IF p = NoiseOne THEN {[t \in 1..T |-> <<TRUE, TRUE>>]}
    ELSE [1..T -> BOOLEAN \X BOOLEAN]

\* One turn of a match: both players choose on the histories so far, each
\* action is flipped as flips says, the histories and the totals grow.
PlayTurn(n1, n2, st, flips) ==
    The({[h1 |-> Append(st.h1, a1), h2 |-> Append(st.h2, a2),
          total |-> <<st.total[1] + Payoff(a1, a2)[1],
                      st.total[2] + Payoff(a1, a2)[2]>>] :
            a1 \in {IF flips[Len(st.h1) + 1][1]
                    THEN Flip(Strategy(n1, st.h1, st.h2))
                    ELSE Strategy(n1, st.h1, st.h2)},
            a2 \in {IF flips[Len(st.h1) + 1][2]
                    THEN Flip(Strategy(n2, st.h2, st.h1))
                    ELSE Strategy(n2, st.h2, st.h1)}})

\* The turns of a match are evaluated in runs of TurnBlock turns.
TurnBlock == 16

\* The turns of a match up to turn number upto.
RECURSIVE PlayBlock(_, _, _, _, _)
PlayBlock(n1, n2, st, upto, flips) ==
    IF Len(st.h1) >= upto THEN st
    ELSE The({PlayBlock(n1, n2, next, upto, flips) :
                 next \in {PlayTurn(n1, n2, st, flips)}})

\* Match.play: T turns of two players, each action flipped as flips says;
\* the result is the pair of total scores.
RECURSIVE PlayTurns(_, _, _, _, _, _, _)
PlayTurns(n1, n2, h1, h2, T, flips, total) ==
    IF Len(h1) >= T THEN total
    ELSE The({PlayTurns(n1, n2, st.h1, st.h2, T, flips, st.total) :
                 st \in {PlayBlock(n1, n2, [h1 |-> h1, h2 |-> h2, total |-> total],
                                   IF Len(h1) + TurnBlock < T
                                   THEN Len(h1) + TurnBlock ELSE T,
                                   flips)}})

\* The per-turn score pairs a match of n1 and n2 can end with: each total
\* divided by the number of turns.
final_score_per_turn(n1, n2, T, p) ==
    {The({<<FloatDiv(total[1], T), FloatDiv(total[2], T)>> :
             total \in {PlayTurns(n1, n2, <<>>, <<>>, T, f, <<0, 0>>)}}) :
        f \in FlipPatterns(p, T)}

population_distribution_mut(ps) ==
    [nm \in {ps[i] : i \in DOMAIN ps} |-> 1]

\* ---------------------------------------------------------------- CaseProcess
population_distribution(ps) ==
    [nm \in {ps[i] : i \in DOMAIN ps} |->
        Cardinality({i \in DOMAIN ps : ps[i] = nm})]

set_players_mut(init) ==
    [players     |-> init,
     populations |-> <<>>]

set_players_two_snapshots(init) ==
    [players     |-> init,
     populations |-> <<population_distribution(init), population_distribution(init)>>]

\* set_players: the new players list and the new snapshot history.
set_players(init) ==
    [players     |-> init,
     populations |-> <<population_distribution(init)>>]

MinScore(scores) ==
    CHOOSE s \in {scores[i] : i \in DOMAIN scores} :
        \A j \in DOMAIN scores : FloatLeq(s, scores[j])

MaxScore(scores) ==
    CHOOSE s \in {scores[i] : i \in DOMAIN scores} :
        \A j \in DOMAIN scores : FloatLeq(scores[j], s)

death_mut(scores) == {<<idx, scores[idx]>> : idx \in DOMAIN scores}

\* death: the (slot, score) pairs random.choice can return.
death(scores) ==
    LET lowest_scorers == {idx \in DOMAIN scores : scores[idx] = MinScore(scores)}
    IN  {<<lowest_scorer, scores[lowest_scorer]>> : lowest_scorer \in lowest_scorers}

birth_mut(scores) ==
    LET first == CHOOSE idx \in DOMAIN scores :
                     /\ scores[idx] = MaxScore(scores)
                     /\ \A other \in DOMAIN scores :
                            scores[other] = MaxScore(scores) => idx <= other
    IN  {<<first, scores[first]>>}

\* birth: the (slot, score) pairs random.choice can return.
birth(scores) ==
    LET highest_scorers == {idx \in DOMAIN scores : scores[idx] = MaxScore(scores)}
    IN  {<<highest_scorer, scores[highest_scorer]>> : highest_scorer \in highest_scorers}

fixation_check_mut(ps) == Cardinality({ps[i] : i \in DOMAIN ps}) <= 2

\* fixation_check: its return value ...
fixation_check(ps) == Cardinality({ps[i] : i \in DOMAIN ps}) = 1

fixation_winner_mut(ps, old) == old

\* ... and the winning name it leaves.
fixation_winner(ps, old) == IF fixation_check(ps) THEN ps[0] ELSE old

exit_condition_mut(ps, r, mr) == fixation_check(ps) \/ r > mr

exit_condition_round_only(ps, r, mr) == r = mr

\* __next__, line 174: the exit condition tested at the start of a step.
exit_condition(ps, r, mr) == fixation_check(ps) \/ r = mr

score_collapse_mut(low_score, high_score) == ~FloatLeq(low_score, high_score)

\* __next__, line 188: the lowest score has caught up with the highest.
score_collapse(low_score, high_score) == low_score = high_score

advance_round_mut(r) == r

advance_round_twice(r) == r + 2

\* __next__, line 199.
advance_round(r) == r + 1

\* _matchup_indices, line 220: the pair was emitted already, in either order.
duplicate_match_mut(i, j, indices) == <<i, j>> \in indices

duplicate_match(i, j, indices) == (<<i, j>> \in indices) \/ (<<j, i>> \in indices)

\* _matchup_indices, line 217: a slot of the pair holds no player.
empty_slot(i, j, ps) == (ps[i] = None) \/ (ps[j] = None)

\* _matchup_indices: the loop over the targets of one source.
RECURSIVE MatchupTargets(_, _, _, _, _)
MatchupTargets(targets, i, idx, ps, indices) ==
    IF targets = <<>> THEN indices
    ELSE The({The({MatchupTargets(rest, i, idx, ps, added) :
                      rest \in {Tail(targets)},
                      added \in {IF empty_slot(i, j, ps) THEN indices
                                 ELSE IF duplicate_match(i, j, indices) THEN indices
                                 ELSE indices \cup {<<i, j>>}}}) :
                 j \in {idx[Head(targets)]}})

\* _matchup_indices: the loop over the sources, i counting from 0.
RECURSIVE MatchupSources(_, _, _, _, _, _)
MatchupSources(sources, i, g, idx, ps, indices) ==
    IF sources = <<>> THEN indices
    ELSE The({MatchupSources(rest, next_i, g, idx, ps, added) :
                 rest \in {Tail(sources)},
                 next_i \in {i + 1},
                 added \in {MatchupTargets(sorted(out_vertices(g, Head(sources))),
                                           i, idx, ps, indices)}})

_matchup_indices(locs, g, idx, ps) ==
    MatchupSources(sorted(locs), 0, g, idx, ps, {})

MatchResults_mut(ps, M, T, p) ==
    {[m \in M |-> The(final_score_per_turn(ps[m[1]], ps[m[2]], 1, 0))]}

\* The outcomes of a round's matches: to each matchup a score pair it can end with.
MatchResults(ps, M, T, p) ==
    IF p = 0 \/ p = NoiseOne
    THEN {[m \in M |-> The(final_score_per_turn(ps[m[1]], ps[m[2]], T, p))]}
    ELSE {r \in [M -> UNION {final_score_per_turn(ps[m[1]], ps[m[2]], T, p) : m \in M}] :
             \A m \in M : r[m] \in final_score_per_turn(ps[m[1]], ps[m[2]], T, p)}

\* score_all, lines 236-248: the loop over the matchups in the order the
\* set yields them, each adding its two scores to the slots of its pair.
RECURSIVE SumOver(_, _, _)
SumOver(scores, order, res) ==
    IF order = <<>> THEN scores
    ELSE The({SumOver(added, rest, res) :
                 added \in {[scores EXCEPT
                                ![Head(order)[1]] = FloatAdd(@, res[Head(order)][1]),
                                ![Head(order)[2]] = FloatAdd(@, res[Head(order)][2])]},
                 rest \in {Tail(order)}})

\* score_all: the round score vector, given the order the matchups are
\* visited in and the outcome of each match; and the Score History with
\* the vector appended, line 249.
score_all(ps, order, res, history) ==
    The({The({[scores |-> scores, score_history |-> Append(history, scores)] :
                 scores \in {SumOver(zeros, order, res)}}) :
            zeros \in {[i \in DOMAIN ps |-> FromInt(0)]}})

\* The matchups in ascending order: the order of the loops of
\* ApproximateCaseProcess.score_all, lines 383-384.
RECURSIVE RangeOrder(_)
RangeOrder(M) ==
    IF M = {} THEN <<>>
    ELSE The({The({<<m>> \o RangeOrder(rest) : rest \in {M \ {m}}}) :
                 m \in {x \in M : \A y \in M :
                            x[1] < y[1] \/ (x[1] = y[1] /\ x[2] <= y[2])}})

\* The orders a loop over the set M can visit its members in.
RECURSIVE IterationOrders(_)
IterationOrders(M) ==
    IF M = {} THEN {<<>>}
    ELSE UNION {UNION {{<<m>> \o rest : rest \in IterationOrders(left)} :
                          left \in {M \ {m}}} :
                   m \in M}

\* The sums a slot can get from its scores of the round, over the orders
\* they can be added in.
RECURSIVE SlotSums(_, _)
SlotSums(acc, terms) ==
    IF DOMAIN terms = {} THEN {acc}
    ELSE UNION {The({SlotSums(next, rest) :
                        next \in {FloatAdd(acc, terms[m])},
                        rest \in {[x \in DOMAIN terms \ {m} |-> terms[x]]}}) :
                   m \in DOMAIN terms}

\* The scores slot i gets from the matchups of M, lines 247-248: the first
\* score of a matchup that has i first, the second of one that has i
\* second, and both of a matchup of i with itself.
SlotTerms(i, M, res) ==
    [t \in {<<m, 1>> : m \in {x \in M : x[1] = i}}
           \cup {<<m, 2>> : m \in {x \in M : x[2] = i}} |->
        res[t[1]][t[2]]]

\* No slot's sum depends on the order of the matchups: a sum of two floats
\* does not, nor do sums of multiples of 2^-20 (they are exact); a sum of
\* more floats can.
OrderFree(ps, M, res) ==
    \/ \A i \in DOMAIN ps :
           Cardinality({x \in M : x[1] = i}) + Cardinality({x \in M : x[2] = i}) <= 2
    \/ \A m \in M : res[m][1][3] = 0 /\ res[m][1][4] = 0
                     /\ res[m][2][3] = 0 /\ res[m][2][4] = 0
    \/ \A i \in DOMAIN ps :
           \E terms \in {SlotTerms(i, M, res)} :
               Cardinality(SlotSums(FromInt(0), terms)) = 1

\* The results score_all can have: the iteration order of a set is not
\* fixed by the language, so each order is an outcome.
score_all_results(ps, M, res, history) ==
    IF OrderFree(ps, M, res)
    THEN {score_all(ps, order, res, history) : order \in {RangeOrder(M)}}
    ELSE {score_all(ps, order, res, history) : order \in IterationOrders(M)}

\* ---------------------------------------------------------------- approximate mode
\* An outcome table maps pairs of names to the outcomes Pdf.sample() can
\* return for them. No table: the attribute of a process that has none.
NoCache == [key \in {} |-> {}]

Reversed(t) == <<t[2], t[1]>>

\* The lookups of _get_scores_from_cache: line 409 raises KeyError ...
KeyMissing(cache, player_names) == player_names \notin DOMAIN cache

\* ... and so does line 412, which no handler catches.
LookupFails(cache, player_names) ==
    /\ KeyMissing(cache, player_names)
    /\ KeyMissing(cache, Reversed(player_names))

_get_scores_from_cache_mut(cache, player_names) ==
    IF ~KeyMissing(cache, player_names)
    THEN cache[player_names]
    ELSE cache[Reversed(player_names)]

\* _get_scores_from_cache where a lookup succeeds: the score pairs it can return.
_get_scores_from_cache(cache, player_names) ==
    IF ~KeyMissing(cache, player_names)
    THEN cache[player_names]
    ELSE {Reversed(match_scores) : match_scores \in cache[Reversed(player_names)]}

\* The pairs (i, j) the loops of ApproximateCaseProcess.score_all visit.
ApproximatePairs(N) == {<<i, j>> \in (0..(N - 1)) \X (0..(N - 1)) : i < j}

\* ApproximateCaseProcess.score_all raises KeyError: a visited pair has no
\* outcomes under either order of its names.
ApproximateScoringFails(ps, cache) ==
    \E m \in ApproximatePairs(ListLen(ps)) : LookupFails(cache, <<ps[m[1]], ps[m[2]]>>)

\* The outcomes of a round's lookups: to each visited pair a score pair.
CachedResults(ps, M, cache) ==
    {r \in [M -> UNION {_get_scores_from_cache(cache, <<ps[m[1]], ps[m[2]]>>) : m \in M}] :
        \A m \in M : r[m] \in _get_scores_from_cache(cache, <<ps[m[1]], ps[m[2]]>>)}

Approximate == process_class = "ApproximateCaseProcess"

ReplaceLoop_mut(ps, scores, n, high_scorer, high_score) ==
    IF n <= 0 THEN {[players |-> ps, stop_flag |-> FALSE]}
    ELSE {[players   |-> IF score_collapse(low[2], high_score) THEN ps
                         ELSE [ps EXCEPT ![low[1]] = ps[high_scorer]],
           stop_flag |-> score_collapse(low[2], high_score) \/ n > 1] :
             low \in death(scores)}

ReplaceLoop_intruder(ps, scores, n, high_scorer, high_score) ==
    IF n <= 0 THEN {[players |-> ps, stop_flag |-> FALSE]}
    ELSE {[players   |-> IF score_collapse(low[2], high_score) THEN ps
                         ELSE [ps EXCEPT ![low[1]] = "Cooperator"],
           stop_flag |-> score_collapse(low[2], high_score)] :
             low \in death(scores)}

\* The replacement loop of __next__, lines 184-192, with n iterations left:
\* the outcomes it can end with, over the death() draws of its iterations.
RECURSIVE ReplaceLoop(_, _, _, _, _)
ReplaceLoop(ps, scores, n, high_scorer, high_score) ==
    IF n <= 0 THEN {[players |-> ps, stop_flag |-> FALSE]}
    ELSE UNION {
             LET low_scorer == low[1]
                 low_score  == low[2]
             IN  IF score_collapse(low_score, high_score)
                 THEN {[players |-> ps, stop_flag |-> TRUE]}
                 ELSE UNION {ReplaceLoop(replaced, scores, left, high_scorer, high_score) :
                                replaced \in {[ps EXCEPT ![low_scorer] = ps[high_scorer]]},
                                left \in {n - 1}}
             : low \in death(scores)}

Iterations(k) == IF k > 0 THEN k ELSE 0

\* ---------------------------------------------------------------- construction
ValidReplaceAmount_mut(k, n) == k <= n

\* __init__, line 81.
ValidReplaceAmount(k, n) == k < n

\* __init__, line 86.
ValidNoise(p) == (p >= 0) /\ (p <= NoiseOne)

\* __init__, line 99.
EqualVertices(g1, g2) == g1.vertices = g2.vertices

\* __init__, line 104: dict(zip(keys, range(n))).
zip_dict(keys, n) ==
    [v \in {keys[k] : k \in {k2 \in DOMAIN keys : k2 <= n}} |->
        (CHOOSE k \in DOMAIN keys :
            /\ k <= n /\ keys[k] = v
            /\ \A later \in DOMAIN keys : (later <= n /\ keys[later] = v) => later <= k) - 1]

\* The constructor returned a process: no assertion of it failed.
Constructed == ~(ret.op = "__init__" /\ ret.val = "AssertionError")

\* __init__ with the given arguments.
__init__(ps, T, mr, p, k, ga) ==
    /\ initial_players = ps
    /\ turns = T
    /\ maximum_round = mr
    /\ current_round = 0
    /\ current_scores = EmptyList
    /\ noise = p
    /\ replace_amount = k
    /\ graph_args = ga
    /\ play_pc = "idle"
    /\ winning_strategy_name = None
    /\ score_history = <<>>
    /\ IF ~ValidReplaceAmount(k, ListLen(ps))
       THEN /\ players = EmptyList
            /\ populations = <<>>
            /\ interaction_graph = NoGraph
            /\ reproduction_graph = NoGraph
            /\ locations = <<>>
            /\ index = EmptyList
            /\ ret = [op |-> "__init__", val |-> "AssertionError", line |-> 81]
       ELSE /\ players = set_players(ps).players
            /\ populations = set_players(ps).populations
            /\ IF ~ValidNoise(p)
               THEN /\ interaction_graph = NoGraph
                    /\ reproduction_graph = NoGraph
                    /\ locations = <<>>
                    /\ index = EmptyList
                    /\ ret = [op |-> "__init__", val |-> "AssertionError", line |-> 86]
               ELSE IF ~EqualVertices(complete_graph(ListLen(ps)),
                                      add_loops(Graph(edges(complete_graph(ListLen(ps))))))
               THEN /\ interaction_graph = NoGraph
                    /\ reproduction_graph = NoGraph
                    /\ locations = <<>>
                    /\ index = EmptyList
                    /\ ret = [op |-> "__init__", val |-> "AssertionError", line |-> 99]
               ELSE /\ interaction_graph = complete_graph(ListLen(ps))
                    /\ reproduction_graph =
                           add_loops(Graph(edges(complete_graph(ListLen(ps)))))
                    /\ locations = sorted(complete_graph(ListLen(ps)).vertices)
                    /\ index = zip_dict(sorted(complete_graph(ListLen(ps)).vertices),
                                        ListLen(ps))
                    /\ ret = [op |-> "__init__", val |-> "self", line |-> 105]

\* CaseProcess(...): the constructor of the base class.
CaseProcess(ps, T, mr, p, k, ga) ==
    /\ __init__(ps, T, mr, p, k, ga)
    /\ process_class = "CaseProcess"
    /\ cached_outcomes = NoCache

\* The defaults of __init__ that ApproximateCaseProcess leaves in place.
DefaultMaximumRound == 10
DefaultReplaceAmount == 1

\* ApproximateCaseProcess(players, cached_outcomes): the base constructor
\* with turns = 0 and noise = 0, then the assignment of the outcome table.
ApproximateCaseProcess(ps, cache) ==
    /\ __init__(ps, 0, DefaultMaximumRound, 0, DefaultReplaceAmount, <<NoGraph, NoGraph>>)
    /\ process_class = "ApproximateCaseProcess"
    /\ cached_outcomes = IF Constructed THEN cache ELSE NoCache

PlayerLists == UNION {Lists(Names, n) : n \in 1..MaxN}

\* A noise strictly between 0 and 1 makes every action of a match a coin
\* flip: such constructions are drawn with two players at most and one turn.
\* With more than three players a slot's score is a sum of more than two
\* floats, one for each order of the matchups when they are not exact: such
\* constructions are drawn with one turn (ScenarioSpec has the others).
Init ==
    \E ps \in PlayerLists, T \in TurnValues, mr \in 0..MaxRound,
       p \in NoiseValues, k \in 0..MaxN :
        /\ (p > 0 /\ p < NoiseOne) => (ListLen(ps) <= 2 /\ T = 1)
        /\ ListLen(ps) > 3 => T = 1
        /\ CaseProcess(ps, T, mr, p, k, <<NoGraph, NoGraph>>)

\* ---------------------------------------------------------------- operations
\* The body of __next__, one step of the iteration. A step that would score
\* a round past MaxHistory entries of the Score History is not taken.
Step ==
    /\ Constructed
    /\ exit_condition(players, current_round, maximum_round)
           \/ Len(score_history) < MaxHistory
    /\ IF exit_condition(players, current_round, maximum_round)
       THEN /\ winning_strategy_name' = fixation_winner(players, winning_strategy_name)
            /\ ret' = [op |-> "__next__", val |-> "StopIteration", line |-> 175]
            /\ UNCHANGED <<players, current_round, current_scores, populations,
                           score_history>>
       ELSE IF Approximate /\ ApproximateScoringFails(players, cached_outcomes)
       THEN /\ ret' = [op |-> "__next__", val |-> "KeyError", line |-> 412]
            /\ UNCHANGED <<players, current_round, current_scores, populations,
                           score_history, winning_strategy_name>>
       ELSE \E indices \in {IF Approximate THEN ApproximatePairs(ListLen(players))
                            ELSE _matchup_indices(locations, interaction_graph,
                                                  index, players)} :
                \E res \in (IF Approximate
                            THEN CachedResults(players, indices, cached_outcomes)
                            ELSE MatchResults(players, indices, turns, noise)) :
                \E scored \in (IF Approximate
                               THEN {score_all(players, order, res, score_history) :
                                        order \in {RangeOrder(indices)}}
                               ELSE score_all_results(players, indices, res,
                                                      score_history)) :
                    \E scores \in {scored.scores} :
                    \E high \in birth(scores) :
                    \E loop \in ReplaceLoop(players, scores, Iterations(replace_amount),
                                             high[1], high[2]) :
                        /\ current_scores' = scores
                        /\ score_history' = scored.score_history
                        /\ players' = loop.players
                        /\ populations' = Append(populations,
                                                 population_distribution(loop.players))
                        /\ IF loop.stop_flag
                           THEN /\ ret' = [op |-> "__next__", val |-> "StopIteration",
                                           line |-> 196]
                                /\ UNCHANGED <<winning_strategy_name, current_round>>
                           ELSE /\ winning_strategy_name' =
                                       fixation_winner(loop.players, winning_strategy_name)
                                /\ current_round' = advance_round(current_round)
                                /\ ret' = [op |-> "__next__", val |-> "self", line |-> 200]
    /\ UNCHANGED <<initial_players, turns, maximum_round, noise, replace_amount,
                   interaction_graph, reproduction_graph, locations, index,
                   graph_args, process_class,
                   cached_outcomes>>

\* __next__ called by the owner of the process.
__next__ ==
    /\ play_pc # "loop"
    /\ Step
    /\ UNCHANGED play_pc

\* reset.
reset ==
    /\ Constructed
    /\ play_pc # "loop"
    /\ winning_strategy_name' = None
    /\ score_history' = <<>>
    /\ players' = set_players(initial_players).players
    /\ populations' = set_players(initial_players).populations
    /\ ret' = [op |-> "reset", val |-> "None", line |-> 277]
    /\ UNCHANGED <<initial_players, turns, maximum_round, current_round,
                   current_scores, noise, replace_amount, interaction_graph,
                   reproduction_graph, locations, index, graph_args, process_class,
                   cached_outcomes, play_pc>>

\* set_players() called by the owner of the process.
call_set_players ==
    /\ Constructed
    /\ play_pc # "loop"
    /\ players' = set_players(initial_players).players
    /\ populations' = set_players(initial_players).populations
    /\ ret' = [op |-> "set_players", val |-> "None", line |-> 113]
    /\ UNCHANGED <<initial_players, turns, maximum_round, current_round,
                   current_scores, noise, replace_amount, score_history,
                   winning_strategy_name, interaction_graph, reproduction_graph,
                   locations, index, graph_args, process_class, cached_outcomes,
                   play_pc>>

\* play called on the process just constructed: it enters its loop.
play ==
    /\ Constructed
    /\ play_pc = "idle"
    /\ ret.op = "__init__"
    /\ play_pc' = "loop"
    /\ UNCHANGED <<players, initial_players, turns, maximum_round, current_round,
                   current_scores, noise, replace_amount, populations, score_history,
                   winning_strategy_name, interaction_graph, reproduction_graph,
                   locations, index, graph_args, process_class,
                   cached_outcomes, ret>>

\* The exceptions a step can raise.
Exceptions == {"StopIteration", "KeyError"}

play_catches_mut(exc) == exc \in Exceptions

\* play, line 295: the handler around the step.
play_catches(exc) == exc = "StopIteration"

\* One iteration of the loop of play, lines 291-297: a step, and the return
\* of self.populations once the step raises StopIteration; any other
\* exception of the step leaves play with it.
play_iteration ==
    /\ play_pc = "loop"
    /\ Step
    /\ play_pc' = IF ret'.val \notin Exceptions THEN "loop"
                  ELSE IF play_catches(ret'.val) THEN "returned"
                  ELSE "raised"

\* The owner writes a score vector into self.current_scores, as a direct
\* call of birth() or death() needs one.
assign_scores ==
    /\ Constructed
    /\ \E v \in Lists({FromInt(x) : x \in 0..MaxScoreValue}, ListLen(players)) :
           current_scores' = v
    /\ ret' = [op |-> "assign_scores", val |-> "None", line |-> 73]
    /\ UNCHANGED <<players, initial_players, turns, maximum_round, current_round,
                   noise, replace_amount, populations, score_history,
                   winning_strategy_name, interaction_graph, reproduction_graph,
                   locations, index, graph_args, process_class,
                   cached_outcomes, play_pc>>

\* birth() called on the current score vector.
call_birth ==
    /\ Constructed
    /\ current_scores # EmptyList
    /\ \E r \in birth(current_scores) :
           ret' = [op |-> "birth", val |-> r, line |-> 140]
    /\ UNCHANGED <<players, initial_players, turns, maximum_round, current_round,
                   current_scores, noise, replace_amount, populations, score_history,
                   winning_strategy_name, interaction_graph, reproduction_graph,
                   locations, index, graph_args, process_class,
                   cached_outcomes, play_pc>>

\* death() called on the current score vector.
call_death ==
    /\ Constructed
    /\ current_scores # EmptyList
    /\ \E r \in death(current_scores) :
           ret' = [op |-> "death", val |-> r, line |-> 127]
    /\ UNCHANGED <<players, initial_players, turns, maximum_round, current_round,
                   current_scores, noise, replace_amount, populations, score_history,
                   winning_strategy_name, interaction_graph, reproduction_graph,
                   locations, index, graph_args, process_class,
                   cached_outcomes, play_pc>>

\* score_all() called by the owner of the process: the round is scored and
\* its vector appended to the Score History; nothing else is written.
call_score_all ==
    /\ Constructed
    /\ play_pc # "loop"
    /\ Len(score_history) < MaxHistory
    /\ IF Approximate /\ ApproximateScoringFails(players, cached_outcomes)
       THEN /\ ret' = [op |-> "score_all", val |-> "KeyError", line |-> 412]
            /\ UNCHANGED score_history
       ELSE \E indices \in {IF Approximate THEN ApproximatePairs(ListLen(players))
                            ELSE _matchup_indices(locations, interaction_graph,
                                                  index, players)} :
                \E res \in (IF Approximate
                            THEN CachedResults(players, indices, cached_outcomes)
                            ELSE MatchResults(players, indices, turns, noise)) :
                \E scored \in (IF Approximate
                               THEN {score_all(players, order, res, score_history) :
                                        order \in {RangeOrder(indices)}}
                               ELSE score_all_results(players, indices, res,
                                                      score_history)) :
                    /\ score_history' = scored.score_history
                    /\ ret' = [op |-> "score_all", val |-> scored.scores,
                               line |-> IF Approximate THEN 392 ELSE 250]
    /\ UNCHANGED <<players, initial_players, turns, maximum_round, current_round,
                   current_scores, noise, replace_amount, populations,
                   winning_strategy_name, interaction_graph, reproduction_graph,
                   locations, index, graph_args, process_class,
                   cached_outcomes, play_pc>>

\* fixation_check() called by the owner of the process: it returns whether
\* the population is of one name, and the winning name is set when it is.
call_fixation_check ==
    /\ Constructed
    /\ play_pc # "loop"
    /\ winning_strategy_name' = fixation_winner(players, winning_strategy_name)
    /\ ret' = [op |-> "fixation_check",
               val |-> IF fixation_check(players) THEN "True" ELSE "False",
               line |-> IF fixation_check(players) THEN 155 ELSE 156]
    /\ UNCHANGED <<players, initial_players, turns, maximum_round, current_round,
                   current_scores, noise, replace_amount, populations, score_history,
                   interaction_graph, reproduction_graph, locations, index,
                   graph_args, process_class, cached_outcomes, play_pc>>

\* _matchup_indices() called on the process.
call_matchup_indices ==
    /\ Constructed
    /\ ret' = [op |-> "_matchup_indices",
               val |-> _matchup_indices(locations, interaction_graph, index, players),
               line |-> 223]
    /\ UNCHANGED <<players, initial_players, turns, maximum_round, current_round,
                   current_scores, noise, replace_amount, populations, score_history,
                   winning_strategy_name, interaction_graph, reproduction_graph,
                   locations, index, graph_args, process_class,
                   cached_outcomes, play_pc>>

\* ---------------------------------------------------------------- specifications
\* The iteration protocol: steps and resets in any order.
Next == __next__ \/ reset

Spec == Init /\ [][Next]_vars

\* A run to completion of a process just constructed. The loop of play has
\* no suspension point: an iteration that can run does run.
PlayNext == play \/ play_iteration

\* The constructions that return a process.
InitPlay == Init /\ Constructed

PlaySpec == InitPlay /\ [][PlayNext]_vars /\ WF_vars(PlayNext)

\* Selection on its own: birth and death applied to every score vector of
\* the population's length with entries up to MaxScoreValue, and the round
\* scored by direct calls of score_all.
InitSel ==
    \E n \in 1..MaxN :
        CaseProcess([i \in 0..(n - 1) |-> "Cooperator"], 1, 0, 0, 0, <<NoGraph, NoGraph>>)

SelNext == assign_scores \/ call_birth \/ call_death \/ call_score_all

SelSpec == InitSel /\ [][SelNext]_vars

\* The graphs a caller passes to the constructor: none, an interaction graph
\* alone, both on the same vertices, or both with the reproduction graph on
\* one vertex more than the interaction graph.
GraphArguments(n) ==
    {<<NoGraph, NoGraph>>, <<cycle(n), NoGraph>>, <<cycle(n), add_loops(cycle(n))>>,
     <<cycle(n), add_loops(cycle(n + 1))>>}

\* Matchup enumeration on its own, for every population and graph arguments.
InitMatch ==
    \E ps \in PlayerLists, k \in 0..1 :
        \E ga \in GraphArguments(ListLen(ps)) : CaseProcess(ps, 1, 1, 0, k, ga)

MatchNext == call_matchup_indices \/ __next__

MatchSpec == InitMatch /\ [][MatchNext]_vars

\* Steps, resets and direct calls of set_players and fixation_check in any
\* order.
SetPlayersNext == __next__ \/ reset \/ call_set_players \/ call_fixation_check

SetPlayersSpec == Init /\ [][SetPlayersNext]_vars

\* The end-to-end scenario: one always-cooperate, one always-defect and two
\* tit-for-tat players in any slot order, one replacement a round, ten
\* rounds at most, no noise; matches of 1, 4, 5, 6 or 200 turns (200 is
\* DEFAULT_TURNS, what a construction that passes no turns gets).
ScenarioTurns == {1, 4, 5, 6, 200}

ScenarioPlayers ==
    {ps \in Lists({"Cooperator", "Defector", "Tit For Tat"}, 4) :
        /\ Cardinality({i \in DOMAIN ps : ps[i] = "Cooperator"}) = 1
        /\ Cardinality({i \in DOMAIN ps : ps[i] = "Defector"}) = 1}

InitScenario ==
    \E ps \in ScenarioPlayers, T \in ScenarioTurns :
        CaseProcess(ps, T, DefaultMaximumRound, 0, DefaultReplaceAmount,
                    <<NoGraph, NoGraph>>)

ScenarioSpec == InitScenario /\ [][PlayNext]_vars

\* Approximate mode: two names, and every outcome table that has some of
\* the four pairs of names as keys. The outcomes of a key are fixed: the two
\* orders of a mixed pair disagree, and a pair of cooperators has two outcomes.
ApproximateNames == {"Cooperator", "Defector"}

Outcomes(key) ==
    CASE key = <<"Cooperator", "Cooperator">> ->
              {<<FromInt(3), FromInt(3)>>, <<FromInt(4), FromInt(2)>>}
      [] key = <<"Cooperator", "Defector">>   -> {<<FromInt(0), FromInt(5)>>}
      [] key = <<"Defector", "Cooperator">>   -> {<<FromInt(3), FromInt(1)>>}
      [] key = <<"Defector", "Defector">>     -> {<<FromInt(1), FromInt(1)>>}

Caches ==
    {[key \in keys |-> Outcomes(key)] :
        keys \in SUBSET (ApproximateNames \X ApproximateNames)}

InitApproximate ==
    \E n \in 1..MaxN :
        \E ps \in Lists(ApproximateNames, n), cache \in Caches :
            ApproximateCaseProcess(ps, cache)

\* Single steps by the owner, or a run to completion.
ApproximateNext == __next__ \/ play \/ play_iteration

ApproximateSpec == InitApproximate /\ [][ApproximateNext]_vars

\* ---------------------------------------------------------------- properties
AllEqual(scores) == \A i, j \in DOMAIN scores : scores[i] = scores[j]

\* The last call was a step that scored a round (it did not stop at line 175).
ScoredStep == ret.op = "__next__" /\ ret.line # 175

Stopped == ret.op = "__next__" /\ ret.val = "StopIteration"

\* C1: after reset() the process is re-iterable from the start: the round
\* counter is back at 0, so the next run has all maximum_round rounds again.
C1_ResetRestoresRoundCounter ==
    ret.op = "reset" => current_round = 0

\* C2: after reset() the population is the construction list slot by slot
\* (so the same multiset of names), the Score History is empty, the
\* Population Snapshot History holds exactly the distribution of the
\* original population, and the winning name is unset.
C2_ResetRestoresPopulationAndLogs ==
    ret.op = "reset" =>
        /\ players = initial_players
        /\ population_distribution(players) = population_distribution(initial_players)
        /\ score_history = <<>>
        /\ Len(populations) = 1
        /\ populations[1] = population_distribution(initial_players)
        /\ winning_strategy_name = None

\* A reset of a mixed population after two completed rounds: rounds were
\* scored and recorded before it.
C2_Witness ==
    /\ ret.op = "reset"
    /\ current_round >= 2
    /\ current_scores # EmptyList
    /\ ~fixation_check(initial_players)

\* C3 as stated: between the steps of a run, and after its terminating step,
\* the length of the process is the round counter plus one.
C3_LengthIsRoundCounterPlusOne ==
    Constructed => Len(populations) = current_round + 1

\* C3 amended: between the steps of a run the length of the process is the
\* round counter plus one, except after a terminating step that ended by
\* score collapse, which appended its snapshot without advancing the
\* counter: there it is the round counter plus two.
C3_LengthCountsCollapsedRound ==
    Constructed =>
        Len(populations) =
            current_round + 1 + (IF ScoredStep /\ ret.line = 196 THEN 1 ELSE 0)

\* A run that completed a round and then ended by score collapse.
C3_Witness ==
    /\ play_pc = "returned"
    /\ ret.line = 196
    /\ current_round >= 1
    /\ Len(populations) = current_round + 2

\* C4: with all players of one name, a step signals termination at the
\* fixation test with the winning name set to that name and scores no round:
\* round counter 0, Score History empty, one snapshot.
C4_HomogeneousStopsAtOnce ==
    (ret.op = "__next__" /\ fixation_check(initial_players)) =>
        /\ ret.val = "StopIteration"
        /\ ret.line = 175
        /\ winning_strategy_name = initial_players[0]
        /\ current_round = 0
        /\ score_history = <<>>
        /\ Len(populations) = 1

\* A step taken on three players of one name, with rounds left to play.
C4_Witness ==
    /\ ret.op = "__next__"
    /\ fixation_check(initial_players)
    /\ ListLen(initial_players) >= 3
    /\ maximum_round >= 1

\* C5: a set winning name implies that every slot holds a player of that
\* name; when a step signals termination the winning name is set if and only
\* if the population is fixated, and it is unset after a score collapse.
C5_WinnerSetIffFixated ==
    /\ winning_strategy_name # None =>
           \A i \in DOMAIN players : players[i] = winning_strategy_name
    /\ Stopped =>
           /\ (winning_strategy_name # None) <=> fixation_check(players)
           /\ ret.line = 196 => winning_strategy_name = None
           /\ winning_strategy_name # None => winning_strategy_name = players[0]

\* A run of a mixed population that reached fixation after scoring rounds.
C5_Witness ==
    /\ Stopped
    /\ ret.line = 175
    /\ winning_strategy_name # None
    /\ current_round >= 1
    /\ current_round < maximum_round
    /\ ~fixation_check(initial_players)

\* C6: play on a process just constructed (maximum_round >= 0) returns: the
\* round counter never exceeds maximum_round, no more than maximum_round
\* rounds are scored, and the loop is eventually left.
C6_PlayTerminatesWithinBudget ==
    /\ [](Constructed =>
             /\ current_round <= maximum_round
             /\ Len(score_history) <= maximum_round)
    /\ <>(~Constructed \/ play_pc = "returned")

\* A run that used its whole budget of rounds and ended on the round cap.
C6_Witness ==
    /\ play_pc = "returned"
    /\ maximum_round >= 2
    /\ current_round = maximum_round
    /\ Len(score_history) = maximum_round
    /\ winning_strategy_name = None

\* C7 as stated: for any replace_amount < N, a round whose score vector has
\* all entries equal has equal birth and death scores and the step ends by
\* score collapse with the winning name unset.
C7_AllEqualRoundCollapses ==
    (ScoredStep /\ AllEqual(current_scores)) =>
        /\ \A b \in birth(current_scores), d \in death(current_scores) : b[2] = d[2]
        /\ ret.val = "StopIteration"
        /\ ret.line = 196
        /\ winning_strategy_name = None

\* C7 amended: for any replace_amount with 1 <= replace_amount < N, a round
\* whose score vector has all entries equal has equal birth and death scores
\* and the step ends by score collapse with the winning name unset. (With
\* replace_amount <= 0 no death is drawn and the step returns normally.)
C7_AllEqualRoundCollapsesWhenReplacing ==
    (ScoredStep /\ AllEqual(current_scores) /\ replace_amount >= 1) =>
        /\ \A b \in birth(current_scores), d \in death(current_scores) : b[2] = d[2]
        /\ ret.val = "StopIteration"
        /\ ret.line = 196
        /\ winning_strategy_name = None

\* A round of two differently named players that scored alike, with one
\* replacement asked for.
C7_Witness ==
    /\ ScoredStep
    /\ AllEqual(current_scores)
    /\ replace_amount >= 1
    /\ ListLen(players) >= 2
    /\ ret.line = 196

\* C8: birth returns a slot holding the maximum of the score vector and
\* death a slot holding the minimum, each with that score; the slots either
\* can return are exactly the slots attaining the maximum (the minimum).
C8_BirthDeathPickExtremes ==
    (Constructed /\ current_scores # EmptyList) =>
        LET top == {i \in DOMAIN current_scores :
                       \A j \in DOMAIN current_scores :
                           FloatLeq(current_scores[j], current_scores[i])}
            bottom == {i \in DOMAIN current_scores :
                          \A j \in DOMAIN current_scores :
                              FloatLeq(current_scores[i], current_scores[j])}
        IN  /\ birth(current_scores) = {<<i, current_scores[i]>> : i \in top}
            /\ death(current_scores) = {<<i, current_scores[i]>> : i \in bottom}
            /\ ret.op = "birth" =>
                   /\ ret.val[1] \in top
                   /\ ret.val[2] = current_scores[ret.val[1]]
            /\ ret.op = "death" =>
                   /\ ret.val[1] \in bottom
                   /\ ret.val[2] = current_scores[ret.val[1]]

\* birth returned the later of two slots tied at the maximum of a vector
\* that also has a lower entry.
C8_Witness ==
    /\ ret.op = "birth"
    /\ ret.val[1] >= 1
    /\ \E i \in DOMAIN current_scores :
           i < ret.val[1] /\ current_scores[i] = ret.val[2]
    /\ \E i \in DOMAIN current_scores : ~FloatLeq(ret.val[2], current_scores[i])

\* The orders in which a list can be traversed.
Orders(l) ==
    {[k \in DOMAIN l |-> l[perm[k]]] : perm \in Permutations(DOMAIN l)}

Unordered(M) == {{m[1], m[2]} : m \in M}

\* C9: whatever graphs the caller passed, the matchup set of a round is the
\* set of all unordered pairs of distinct slots: N*(N-1)/2 pairs, none in
\* both orders, none a self-pair, every slot in N-1 of them (at least one
\* when there are two slots or more); the round score vector has length N;
\* and the set of unordered pairs is the same for every order in which the
\* vertices and the neighbours are listed.
C9_MatchupsAreAllPairs ==
    Constructed =>
        LET N == ListLen(players)
            M == _matchup_indices(locations, interaction_graph, index, players)
        IN  /\ 2 * Cardinality(M) = N * (N - 1)
            /\ \A m \in M :
                   /\ m[1] \in 0..(N - 1)
                   /\ m[2] \in 0..(N - 1)
                   /\ m[1] # m[2]
                   /\ <<m[2], m[1]>> \notin M
            /\ \A i \in 0..(N - 1) :
                   /\ Cardinality({m \in M : m[1] = i \/ m[2] = i}) = N - 1
                   /\ N >= 2 => \E m \in M : m[1] = i \/ m[2] = i
            /\ Unordered(M) = {{i, j} : i, j \in 0..(N - 1)} \ {{i} : i \in 0..(N - 1)}
            /\ ret.op = "_matchup_indices" => ret.val = M
            /\ ScoredStep => DOMAIN current_scores = 0..(N - 1)
            /\ \A locs \in Orders(locations) :
                   \A perm \in Permutations(1..(N - 1)) :
                       LET g == [interaction_graph EXCEPT
                                    !.out = [v \in DOMAIN interaction_graph.out |->
                                                [k \in 1..(N - 1) |->
                                                    interaction_graph.out[v][perm[k]]]]]
                       IN  Unordered(_matchup_indices(locs, g, index, players)) =
                               Unordered(M)

\* The matchups of three slots, listed for a caller who passed both graphs.
C9_Witness ==
    /\ ret.op = "_matchup_indices"
    /\ ListLen(players) = 3
    /\ Cardinality(ret.val) = 3
    /\ graph_args[1] # NoGraph
    /\ graph_args[2] # NoGraph

\* C10: construction succeeds only if replace_amount < N and 0 <= noise <= 1;
\* otherwise it fails at once with an assertion error, before any history is
\* recorded or any round played, and no operation ever runs on the result.
C10_ConstructionValidatesArguments ==
    /\ (ret.op = "__init__" /\ ret.val = "AssertionError") <=>
           ~(/\ replace_amount < ListLen(initial_players)
             /\ noise >= 0
             /\ noise <= NoiseOne)
    /\ ~Constructed =>
           /\ current_round = 0
           /\ score_history = <<>>
           /\ ~ENABLED Next

\* A construction that asked to replace as many players as there are.
C10_Witness ==
    /\ ~Constructed
    /\ replace_amount = ListLen(initial_players)
    /\ noise = 0
    /\ ret.line = 81

\* The caller passed both graphs and their vertex sets differ.
MismatchedGraphs(ga) ==
    /\ ga[1] # NoGraph
    /\ ga[2] # NoGraph
    /\ SeqRange(ga[1].vertices) # SeqRange(ga[2].vertices)

\* C11: a construction given an interaction graph and a reproduction graph
\* whose vertex sets differ fails at construction: no process is returned.
C11_MismatchedGraphsRejected ==
    MismatchedGraphs(graph_args) => ~Constructed

\* A step of an approximate process that scored a round.
ApproximateRoundScored ==
    /\ Approximate
    /\ score_history' = Append(score_history, current_scores')

\* The pairs (score added to slot i, score added to slot j) a lookup for
\* slots i < j can give: an outcome of the entry keyed (name_i, name_j) as
\* it is when that key is present, and otherwise an outcome of the entry
\* keyed (name_j, name_i) with its two components exchanged, so that slot i
\* gets the second component and slot j the first.
OrientedSamples(cache, ni, nj) ==
    IF <<ni, nj>> \in DOMAIN cache
    THEN cache[<<ni, nj>>]
    ELSE IF <<nj, ni>> \in DOMAIN cache
    THEN {<<o[2], o[1]>> : o \in cache[<<nj, ni>>]}
    ELSE {}

\* The score vectors that adding one oriented sample per pair of M to acc gives.
RECURSIVE OrientedTotals(_, _, _, _)
OrientedTotals(M, ps, cache, acc) ==
    IF M = {} THEN {acc}
    ELSE LET m == CHOOSE x \in M : TRUE
         IN  UNION {OrientedTotals(M \ {m}, ps, cache,
                                   [acc EXCEPT ![m[1]] = FloatAdd(@, o[1]), ![m[2]] = FloatAdd(@, o[2])]) :
                       o \in OrientedSamples(cache, ps[m[1]], ps[m[2]])}

\* C12: in approximate mode the score vector of a round is the sum, over
\* the pairs of slots i < j, of one sample per pair, taken unreversed from
\* the entry keyed (name_i, name_j) when that key is present and otherwise
\* reversed from the entry keyed (name_j, name_i); for two slots the score
\* vector is that one oriented sample.
C12_ReversedKeyReversesSample ==
    [][ApproximateRoundScored =>
          LET N == ListLen(players)
              M == {m \in (0..(N - 1)) \X (0..(N - 1)) : m[1] < m[2]}
              scores == current_scores'
          IN  /\ N = 2 => <<scores[0], scores[1]>> \in
                              OrientedSamples(cached_outcomes, players[0], players[1])
              /\ scores \in OrientedTotals(M, players, cached_outcomes,
                                            [k \in 0..(N - 1) |-> FromInt(0)])]_vars

\* The first round of two players whose names are keyed in reversed order
\* only, with the one outcome (0, 5): slot 0 scored 5 and slot 1 scored 0.
C12_Witness ==
    /\ Approximate
    /\ ListLen(initial_players) = 2
    /\ Len(score_history) >= 1
    /\ <<initial_players[0], initial_players[1]>> \notin DOMAIN cached_outcomes
    /\ <<initial_players[1], initial_players[0]>> \in DOMAIN cached_outcomes
    /\ cached_outcomes[<<initial_players[1], initial_players[0]>>] =
           {<<FromInt(0), FromInt(5)>>}
    /\ score_history[1][0] = FromInt(5)
    /\ score_history[1][1] = FromInt(0)

\* A transition that is a step: one taken inside play, or one by the owner.
StepTaken == play_pc = "loop" \/ play_pc' = play_pc

\* Some pair of names occurring in two slots of the population has no
\* outcomes under either order.
UnkeyedPair(ps, cache) ==
    \E i, j \in DOMAIN ps :
        /\ i # j
        /\ <<ps[i], ps[j]>> \notin DOMAIN cache
        /\ <<ps[j], ps[i]>> \notin DOMAIN cache

\* The step failed with the lookup error and nothing else happened: inside
\* play the error leaves play, which does not return; no round is recorded,
\* no slot, counter or winning name changes.
LookupErrorSurfaced ==
    /\ ret'.op = "__next__"
    /\ ret'.val = "KeyError"
    /\ play_pc = "loop" => play_pc' = "raised"
    /\ play_pc' # "returned"
    /\ UNCHANGED <<players, current_scores, score_history, populations,
                   current_round, winning_strategy_name>>

\* C13 as stated: in approximate mode a step taken while some pair of names
\* of the population has no outcomes under either key order fails with the
\* lookup error, which reaches the caller of the step and of play.
C13_UnkeyedPairFailsStep ==
    [][(Approximate /\ StepTaken /\ UnkeyedPair(players, cached_outcomes))
           => LookupErrorSurfaced]_vars

\* C13 amended: the same of every step that gets past its start-of-step
\* tests (population not fixated, round counter short of maximum_round), the
\* only steps that look outcomes up; and a step fails so in no other case.
C13_UnkeyedPairFailsScoringStep ==
    [][(Approximate /\ StepTaken) =>
           /\ (/\ UnkeyedPair(players, cached_outcomes)
               /\ ~fixation_check(players)
               /\ current_round # maximum_round) => LookupErrorSurfaced
           /\ ret'.val = "KeyError" =>
                  /\ UnkeyedPair(players, cached_outcomes)
                  /\ LookupErrorSurfaced]_vars

\* A run to completion that scored a round and then left play with the
\* lookup error: the round's clone brought an unkeyed pair into the population.
C13_Witness ==
    /\ Approximate
    /\ play_pc = "raised"
    /\ ret.val = "KeyError"
    /\ Len(score_history) >= 1
    /\ ~UnkeyedPair(initial_players, cached_outcomes)
    /\ UnkeyedPair(players, cached_outcomes)

\* A step that scored a round and returned normally (no score collapse).
RoundCompleted ==
    /\ ret'.op = "__next__"
    /\ ret'.line = 200
    /\ score_history' = Append(score_history, current_scores')

\* C14: in a round that does not end by score collapse the best player is
\* cloned replace_amount times over the replace_amount players of lowest
\* fitness: there are a slot b holding the maximum score and a set of
\* exactly replace_amount slots, none scoring above a slot outside the set,
\* that now all hold a clone of b, every other slot keeping its occupant.
C14_ReplacesLowestDistinctSlots ==
    [][RoundCompleted =>
          LET scores == current_scores'
              slots  == DOMAIN players
          IN  \E b \in {i \in slots : \A j \in slots : FloatLeq(scores[j], scores[i])} :
              \E victims \in SUBSET slots :
                  /\ Cardinality(victims) = Iterations(replace_amount)
                  /\ \A v \in victims : \A u \in slots \ victims : FloatLeq(scores[v], scores[u])
                  /\ \A v \in victims : players'[v] = players[b]
                  /\ \A u \in slots \ victims : players'[u] = players[u]]_vars

\* The latest snapshot is four copies of always-defect.
DefectorsTookOver ==
    /\ populations # <<>>
    /\ populations[Len(populations)] = [nm \in {"Defector"} |-> 4]

\* C15 as stated: in the scenario of one always-cooperate, one always-defect
\* and two tit-for-tat players (replace_amount 1, maximum_round 10, noise 0,
\* standard payoffs), whatever the tie-breaks, the last snapshot is never
\* four copies of always-defect.
C15_DefectorNeverTakesOver ==
    ~DefectorsTookOver

\* C15 amended: the same for matches of five turns or more (the default is
\* 200). In shorter matches tit-for-tat's retaliation does not make up for
\* its first-turn loss and always-defect takes the population over.
C15_DefectorNeverTakesOverLongMatches ==
    turns >= 5 => ~DefectorsTookOver

\* A run of 200-turn matches that ended fixated on tit-for-tat after the
\* defector had been cloned once, in round 1.
C15_Witness ==
    /\ play_pc = "returned"
    /\ turns = 200
    /\ ListLen(players) = 4
    /\ winning_strategy_name = "Tit For Tat"
    /\ Len(populations) = 4
    /\ populations[2] = [nm \in {"Defector", "Tit For Tat"} |-> 2]

\* A step that scored a round, however it ended.
RoundScored ==
    /\ ret'.op = "__next__"
    /\ score_history' = Append(score_history, current_scores')

\* C16: a step that ends by score collapse overwrote no slot (the collapse
\* is met on the first death draw, in an all-equal round), so the snapshot
\* it appends equals the previous one; and in a round whose score vector is
\* not all-equal the loop is never aborted: the step returns normally, and
\* when replace_amount >= 1 some slot at the minimum now holds a clone of a
\* slot at the maximum.
C16_CollapseOnlyOnFirstDraw ==
    [][RoundScored =>
          LET scores == current_scores'
              slots  == DOMAIN players
              lowest == {i \in slots : \A j \in slots : FloatLeq(scores[i], scores[j])}
              highest == {i \in slots : \A j \in slots : FloatLeq(scores[j], scores[i])}
          IN  /\ ret'.line = 196 =>
                     /\ AllEqual(scores)
                     /\ replace_amount >= 1
                     /\ players' = players
                     /\ populations' = Append(populations, populations[Len(populations)])
              /\ ~AllEqual(scores) =>
                     /\ ret'.val = "self"
                     /\ ret'.line = 200
                     /\ replace_amount >= 1 =>
                            \E v \in lowest, b \in highest : players'[v] = players[b]
                     /\ \A i \in slots :
                            players'[i] # players[i] => i \in lowest]_vars

\* A score collapse after a completed round of three players, two
\* replacements a round: the last two snapshots are equal.
C16_Witness ==
    /\ ret.op = "__next__"
    /\ ret.line = 196
    /\ current_round >= 1
    /\ replace_amount >= 2
    /\ ListLen(players) = 3
    /\ Len(populations) >= 3
    /\ populations[Len(populations)] = populations[Len(populations) - 1]
    /\ populations[Len(populations)] # populations[1]

\* C17: a step changes only victim slots. In a step that scores a round
\* there is a birth slot, at the maximum of the round's score vector, such
\* that every slot whose occupant differs afterwards was at the minimum of
\* that vector and now holds the name the birth slot had; every other slot,
\* the birth slot included, keeps its occupant. A step that scores no round
\* changes no slot, and no step changes the slot-to-vertex map.
C17_StepChangesOnlyVictimSlots ==
    [][ret'.op = "__next__" =>
          /\ locations' = locations
          /\ index' = index
          /\ interaction_graph' = interaction_graph
          /\ DOMAIN players' = DOMAIN players
          /\ ~RoundScored => players' = players
          /\ RoundScored =>
                 LET scores == current_scores'
                     slots  == DOMAIN players
                     lowest == {i \in slots : \A j \in slots : FloatLeq(scores[i], scores[j])}
                     highest == {i \in slots : \A j \in slots : FloatLeq(scores[j], scores[i])}
                 IN  \E b \in highest :
                         /\ players'[b] = players[b]
                         /\ \A i \in slots :
                                players'[i] # players[i] =>
                                    /\ i \in lowest
                                    /\ players'[i] = players[b]]_vars

\* The first round of three players, two replacements asked for: two slots
\* tied at the minimum were both overwritten, the third kept its occupant.
C17_Witness ==
    /\ ret.op = "__next__"
    /\ ret.line = 200
    /\ Len(score_history) = 1
    /\ current_round = 1
    /\ ListLen(players) = 3
    /\ Cardinality({i \in DOMAIN players : players[i] # initial_players[i]}) = 2
    /\ \A i \in DOMAIN players :
           players[i] # initial_players[i] =>
               \A j \in DOMAIN players : FloatLeq(current_scores[i], current_scores[j])

\* C18: a step taken on a fixated population, or with the round counter
\* equal to maximum_round, signals termination at once and scores and
\* records nothing: population, round score vector, Score History, Snapshot
\* History and round counter are unchanged, and so is every other field but
\* the winning name, which is set to the one name on fixation and is
\* otherwise left as it was.
C18_StartOfStepStopRecordsNothing ==
    [][(/\ ret'.op = "__next__"
        /\ fixation_check(players) \/ current_round = maximum_round) =>
          /\ ret'.val = "StopIteration"
          /\ ret'.line = 175
          /\ UNCHANGED <<players, current_scores, score_history, populations,
                         current_round, initial_players, turns, maximum_round,
                         noise, replace_amount, interaction_graph,
                         reproduction_graph, locations, index>>
          /\ winning_strategy_name' =
                 IF \A i \in DOMAIN players : players[i] = players[0]
                 THEN players[0] ELSE winning_strategy_name]_vars

\* A step that stopped on the round cap: two rounds were scored before it,
\* the population is still mixed and no winner is named.
C18_Witness ==
    /\ ret.op = "__next__"
    /\ ret.line = 175
    /\ current_round = maximum_round
    /\ maximum_round >= 2
    /\ Len(score_history) >= 2
    /\ ~fixation_check(players)
    /\ winning_strategy_name = None

\* C19: the two history logs grow in lockstep and are append-only. Every
\* step that scores a round appends exactly one score vector (the round's)
\* and exactly one snapshot (of the population it leaves) and keeps the
\* earlier entries; a step that scores none appends nothing; a step that
\* does not terminate advances the round counter by exactly 1 and a
\* terminating step leaves it; and after construction, steps and resets
\* the number of snapshots is the number of score vectors plus one.
C19_HistoriesGrowInLockstep ==
    /\ [](Constructed => Len(populations) = Len(score_history) + 1)
    /\ [][ret'.op = "__next__" =>
             /\ ret'.line # 175 =>
                    /\ score_history' = Append(score_history, current_scores')
                    /\ populations' =
                           Append(populations, population_distribution(players'))
                    /\ Len(score_history') = Len(score_history) + 1
                    /\ Len(populations') = Len(populations) + 1
                    /\ \A n \in 1..Len(score_history) :
                           score_history'[n] = score_history[n]
                    /\ \A n \in 1..Len(populations) :
                           populations'[n] = populations[n]
             /\ ret'.line = 175 => UNCHANGED <<score_history, populations>>
             /\ ret'.val = "self" => current_round' = current_round + 1
             /\ ret'.val # "self" => current_round' = current_round]_vars

\* A round scored after a reset that followed a completed round: each log
\* restarted and holds the one new entry past its start.
C19_Witness ==
    /\ ret.op = "__next__"
    /\ ret.line = 200
    /\ current_round >= 2
    /\ Len(score_history) = 1
    /\ Len(populations) = 2
    /\ ~fixation_check(players)

\* C20 as stated: after set_players, called at any point after some rounds,
\* the population is the original one again, the Score History is empty
\* and the Snapshot History holds exactly the one initial snapshot.
C20_SetPlayersResetsBothLogs ==
    ret.op = "set_players" =>
        /\ players = initial_players
        /\ score_history = <<>>
        /\ populations = <<population_distribution(initial_players)>>

\* C20 amended: after set_players the population is the original one again
\* and the Snapshot History holds exactly the one initial snapshot; the
\* Score History is left as it was (only reset empties it), and so are the
\* round counter, the round score vector and the winning name.
C20_SetPlayersResetsSnapshotsOnly ==
    /\ [](ret.op = "set_players" =>
             /\ players = initial_players
             /\ populations = <<population_distribution(initial_players)>>)
    /\ [][ret'.op = "set_players" =>
             UNCHANGED <<score_history, current_round, current_scores,
                         winning_strategy_name>>]_vars

\* set_players called after two scored rounds had changed the population:
\* the two score vectors are still in the Score History.
C20_Witness ==
    /\ ret.op = "set_players"
    /\ Len(score_history) >= 2
    /\ Len(populations) = 1
    /\ current_round >= 1
    /\ ~fixation_check(initial_players)

\* The sum of the counts of a snapshot.
RECURSIVE CountSum(_)
CountSum(snapshot) ==
    IF DOMAIN snapshot = {} THEN 0
    ELSE LET nm == CHOOSE x \in DOMAIN snapshot : TRUE
         IN  snapshot[nm] + CountSum([x \in DOMAIN snapshot \ {nm} |-> snapshot[x]])

\* C21: the population always has exactly N occupied slots, N being the
\* number of players given at construction: after any steps and resets the
\* slots are 0..N-1, each holds a player (none is None), and the counts of
\* every recorded snapshot are positive and sum to N.
C21_PopulationKeepsNSlots ==
    Constructed =>
        LET N == ListLen(initial_players)
        IN  /\ DOMAIN players = 0..(N - 1)
            /\ ListLen(players) = N
            /\ \A i \in DOMAIN players : players[i] # None /\ players[i] \in Names
            /\ \A n \in 1..Len(populations) :
                   /\ CountSum(populations[n]) = N
                   /\ \A nm \in DOMAIN populations[n] : populations[n][nm] >= 1

\* Three slots after a reset and a further completed round: the population
\* differs from the original one and two snapshots are recorded.
C21_Witness ==
    /\ ret.op = "__next__"
    /\ ret.line = 200
    /\ ListLen(initial_players) = 3
    /\ current_round >= 2
    /\ Len(populations) = 2
    /\ players # initial_players
    /\ Cardinality(DOMAIN populations[2]) = 2

\* C22: termination is absorbing. A step taken right after a step that
\* signalled termination, with no reset in between, signals termination
\* again and leaves population, Score History, Snapshot History, round
\* counter and winning name unchanged.
C22_TerminationIsAbsorbing ==
    [][(Stopped /\ ret'.op = "__next__") =>
          /\ ret'.val = "StopIteration"
          /\ UNCHANGED <<players, score_history, populations, current_round,
                         winning_strategy_name>>]_vars

\* The distinct display names of a population.
NamesOf(ps) == {ps[i] : i \in DOMAIN ps}

\* C23: steps never introduce a strategy. From one step to the next the set
\* of distinct names in the population shrinks or stays the same; so each
\* snapshot's keys are among those of the snapshot before it and of the
\* initial snapshot, and a name that has left the snapshots does not come
\* back in a later one; the names present are always names of the
\* construction list, which is all a reset brings back.
C23_StepsIntroduceNoStrategy ==
    /\ [][ret'.op = "__next__" => NamesOf(players') \subseteq NamesOf(players)]_vars
    /\ [](Constructed =>
             /\ NamesOf(players) \subseteq NamesOf(initial_players)
             /\ \A n \in 1..Len(populations) :
                    /\ DOMAIN populations[n] \subseteq DOMAIN populations[1]
                    /\ \A m \in 1..n :
                           DOMAIN populations[n] \subseteq DOMAIN populations[m])

\* Three differently named players after two completed rounds: a name was
\* lost in each round and the snapshots show 3, 2 and 1 names.
C23_Witness ==
    /\ ret.op = "__next__"
    /\ Len(populations) = 3
    /\ Cardinality(DOMAIN populations[1]) = 3
    /\ Cardinality(DOMAIN populations[2]) = 2
    /\ Cardinality(DOMAIN populations[3]) = 1
    /\ NamesOf(players) = DOMAIN populations[3]

====
